---- MODULE Spec2Model ----
(***************************************************************************)
(* The two-stage pipeline of qofo/backend: script_loader_node (Transcript  *)
(* Resolver) followed by text_analysis_node (Risk Analyst), in its four    *)
(* variants app.py, main.py, backend.py and supervisor.py.                 *)
(*                                                                         *)
(* A Python str is a sequence of one-character strings.  Fixed literal     *)
(* text that the program only concatenates and never inspects (the message  *)
(* bodies, the prompt template, the text of an exception) is kept as one   *)
(* element; the Korean message bodies are written in English.             *)
(***************************************************************************)
EXTENDS Integers, Sequences, FiniteSets, TLC

VARIABLES variant, GOOGLE_API_KEY, st, pc, obs, calls, arg, ret

vars == <<variant, GOOGLE_API_KEY, st, pc, obs, calls, arg, ret>>

\* ------------------------------------------------------------------------
\* Bounds of the model
\* ------------------------------------------------------------------------
MaxUrlParts == 3
MaxSegWords == 1
MaxSegs == 2
MaxRunTracks == 1
MaxRunSegs == 1
NumRequests == 2

\* ------------------------------------------------------------------------
\* Python values and string operations
\* ------------------------------------------------------------------------
None == <<"None">>

\* None where the value, when present, is an object (a record)
Nothing == [none |-> TRUE]

Variants == {"app", "main", "backend", "supervisor"}

RECURSIVE Concat(_)
Concat(parts) ==
    IF parts = <<>> THEN <<>> ELSE Head(parts) \o Concat(Tail(parts))

startswith(s, prefix) ==
    /\ Len(s) >= Len(prefix)
    /\ \A i \in 1..Len(prefix) : s[i] = prefix[i]

replace(s, old, new) == [i \in 1..Len(s) |-> IF s[i] = old THEN new ELSE s[i]]

RECURSIVE join(_, _)
join(sep, items) ==
    IF items = <<>> THEN <<>>
    ELSE IF Len(items) = 1 THEN Head(items)
    ELSE Head(items) \o sep \o join(sep, Tail(items))

\* s[:n]
Slice(s, n) == SubSeq(s, 1, IF Len(s) < n THEN Len(s) ELSE n)

\* All sequences of at most n elements of S
SeqsUpTo(S, n) == UNION {[1..k -> S] : k \in 0..n}

\* ------------------------------------------------------------------------
\* extract_video_id
\* ------------------------------------------------------------------------
IdLen == 11

\* the character class [0-9A-Za-z_-]
IdChars ==
    {"0","1","2","3","4","5","6","7","8","9"} \cup
    {"A","B","C","D","E","F","G","H","I","J","K","L","M",
     "N","O","P","Q","R","S","T","U","V","W","X","Y","Z"} \cup
    {"a","b","c","d","e","f","g","h","i","j","k","l","m",
     "n","o","p","q","r","s","t","u","v","w","x","y","z"} \cup
    {"_", "-"}

YoutuBe == <<"y","o","u","t","u",".","b","e","/">>

\* r'(?:v=|\/)([0-9A-Za-z_-]{11}).*' : the alternatives of the non-capturing
\* group in the order the regex tries them; the trailing .* always matches.
Pattern1 == << <<"v", "=">>, <<"/">> >>

\* r'(?:youtu\.be\/)([0-9A-Za-z_-]{11})'
Pattern2 == << YoutuBe >>

patterns == <<Pattern1, Pattern2>>

LiteralAt(url, i, lit) ==
    /\ i + Len(lit) - 1 <= Len(url)
    /\ \A k \in 1..Len(lit) : url[i + k - 1] = lit[k]

IdAt(url, j) ==
    /\ j + IdLen - 1 <= Len(url)
    /\ \A k \in j..(j + IdLen - 1) : url[k] \in IdChars

\* whether the pattern matches with the match starting at index i
MatchesAt(pattern, url, i) ==
    \E a \in 1..Len(pattern) :
        LiteralAt(url, i, pattern[a]) /\ IdAt(url, i + Len(pattern[a]))

\* group(1) of the match at i: the first alternative that matches wins
GroupAt(pattern, url, i) ==
    LET a == CHOOSE x \in 1..Len(pattern) :
                 /\ LiteralAt(url, i, pattern[x]) /\ IdAt(url, i + Len(pattern[x]))
                 /\ \A y \in 1..(x - 1) :
                        ~(LiteralAt(url, i, pattern[y]) /\ IdAt(url, i + Len(pattern[y])))
        j == i + Len(pattern[a])
    IN  SubSeq(url, j, j + IdLen - 1)

\* re.search(pattern, url): the leftmost match, or None
re_search(pattern, url) ==
    LET starts == {i \in 1..Len(url) : MatchesAt(pattern, url, i)}
    IN  IF starts = {} THEN None
        ELSE GroupAt(pattern, url, CHOOSE i \in starts : \A j \in starts : i <= j)

RECURSIVE FirstMatch(_, _)
FirstMatch(ps, url) ==
    IF ps = <<>> THEN None
    ELSE IF re_search(Head(ps), url) # None THEN re_search(Head(ps), url)
    ELSE FirstMatch(Tail(ps), url)

extract_video_id(url) == FirstMatch(patterns, url)

\* ------------------------------------------------------------------------
\* URLs given to the program: concatenations of at most MaxUrlParts parts
\* ------------------------------------------------------------------------
UrlWatch == <<"h","t","t","p","s",":","/","/","w","w","w",".","y","o","u","t","u","b","e",".","c","o","m","/","w","a","t","c","h","?","v","=">>
UrlShort == <<"h","t","t","p","s",":","/","/","y","o","u","t","u",".","b","e","/">>
UrlId == <<"d","Q","w","4","w","9","W","g","X","c","Q">>
UrlTime == <<"&","t","=","4","2","s">>
UrlArchive == <<"h","t","t","p","s",":","/","/","w","e","b",".","a","r","c","h","i","v","e",".","o","r","g","/","w","e","b","/","2","0","2","0","0","1","0","1","0","0","0","0","0","0","/">>
UrlPlain == <<"n","o","t","-","a","-","u","r","l">>
UrlChannel == <<"h","t","t","p","s",":","/","/","w","w","w",".","y","o","u","t","u","b","e",".","c","o","m","/","c","h","a","n","n","e","l","/">>

UrlParts == {UrlWatch, UrlShort, UrlId, UrlTime, UrlArchive, UrlPlain, UrlChannel}

Urls == {Concat(ps) : ps \in SeqsUpTo(UrlParts, MaxUrlParts)}

\* ------------------------------------------------------------------------
\* Specification SpecUrl: extract_video_id applied to each URL
\* ------------------------------------------------------------------------
\* ret holds the returned value once the function was called
NotCalled == <<>>

Called == ret # NotCalled

Result == ret[1]

InitUrl ==
    /\ variant = "app"
    /\ GOOGLE_API_KEY = None
    /\ st = <<>>
    /\ pc = <<>>
    /\ obs = <<>>
    /\ calls = <<>>
    /\ arg \in Urls
    /\ ret = NotCalled

CallExtractVideoId ==
    /\ ret = NotCalled
    /\ ret' = <<extract_video_id(arg)>>
    /\ UNCHANGED <<variant, GOOGLE_API_KEY, st, pc, obs, calls, arg>>

NextUrl == CallExtractVideoId

SpecUrl == InitUrl /\ [][NextUrl]_vars

\* The URL shapes of the claim: "watch?v=" or "youtu.be/" directly followed
\* by an 11-character id.
WatchV == <<"w","a","t","c","h","?","v","=">>

FormIds(url) ==
    {SubSeq(url, i + Len(lit), i + Len(lit) + IdLen - 1) :
        <<i, lit>> \in {p \in (1..Len(url)) \X {WatchV, YoutuBe} :
                            LiteralAt(url, p[1], p[2]) /\ IdAt(url, p[1] + Len(p[2]))}}

\* C6: for a URL of the form .../watch?v=<id>... or youtu.be/<id>,
\* extract_video_id returns exactly <id>; for a URL that contains neither
\* form it returns None.
C6_ExtractExact ==
    Called =>
        IF FormIds(arg) = {} THEN Result = None ELSE Result \in FormIds(arg)

\* ------------------------------------------------------------------------
\* Caption store (youtube_transcript_api) as the program uses it
\* ------------------------------------------------------------------------
Langs == {"ko", "en", "ja"}

\* answers of YouTubeTranscriptApi().list(video_id): the manually created
\* and the generated tracks by language code, and whether the tracks can be
\* translated to Korean
TranscriptLists ==
    [manual : SUBSET Langs, generated : SUBSET Langs, translatable : BOOLEAN]

Exc(type) == [exc |-> type]

IsExc(x) == "exc" \in DOMAIN x

ListResponses ==
    TranscriptLists \cup {Exc("TranscriptsDisabled"), Exc("VideoUnavailable")}

\* words of caption text
ERROR == <<"E", "R", "R", "O", "R">>

Words == {<<"a">>, <<"\n">>, ERROR}

Segments == {Concat(ws) : ws \in SeqsUpTo(Words, MaxSegWords)}

\* answers of transcript.fetch(): the texts of the timed segments
FetchResponses ==
    {[segments |-> segs] : segs \in SeqsUpTo(Segments, MaxSegs)}
    \cup {Exc("RequestBlocked")}

Track(tl, kind, lang) ==
    [language_code |-> lang, is_generated |-> (kind = "generated"),
     source |-> <<kind, lang>>, tlang |-> "", translatable |-> tl.translatable]

\* TranscriptList._find_transcript: language codes in the given order, and
\* for each code the track dictionaries in the given order
_find_transcript(tl, language_codes, kinds) ==
    LET hits == {h \in (1..Len(language_codes)) \X (1..Len(kinds)) :
                    language_codes[h[1]] \in tl[kinds[h[2]]]}
        first == CHOOSE h \in hits :
                    \A g \in hits : h[1] < g[1] \/ (h[1] = g[1] /\ h[2] <= g[2])
    IN  IF hits = {} THEN Exc("NoTranscriptFound")
        ELSE Track(tl, kinds[first[2]], language_codes[first[1]])

find_transcript(tl, language_codes) ==
    _find_transcript(tl, language_codes, <<"manual", "generated">>)

find_generated_transcript(tl, language_codes) ==
    _find_transcript(tl, language_codes, <<"generated">>)

find_manually_created_transcript(tl, language_codes) ==
    _find_transcript(tl, language_codes, <<"manual">>)

\* Transcript.translate: a new transcript object, no request to the store
translate(t, language_code) ==
    IF ~t.translatable THEN Exc("NotTranslatable")
    ELSE [language_code |-> language_code, is_generated |-> TRUE,
          source |-> t.source, tlang |-> language_code, translatable |-> FALSE]

\* iteration over a TranscriptList: manual tracks, then generated ones
LangOrder == <<"ko", "en", "ja">>

Iter(tl) ==
    SelectSeq([i \in 1..3 |-> Track(tl, "manual", LangOrder[i])],
              LAMBDA t : t.language_code \in tl.manual)
    \o SelectSeq([i \in 1..3 |-> Track(tl, "generated", LangOrder[i])],
                 LAMBDA t : t.language_code \in tl.generated)

\* the transcript chosen by the nested try blocks of get_video_script:
\* a transcript, Nothing (None), or the exception that leaves the blocks
select_app(tl) ==
    LET t1 == find_transcript(tl, <<"ko">>)
        t2 == find_transcript(tl, <<"en">>)
        t3 == find_generated_transcript(tl, <<"ko">>)
        t4 == find_manually_created_transcript(tl, <<"en">>)
        t5 == find_generated_transcript(tl, <<"en">>)
    IN  IF ~IsExc(t1) THEN t1
        ELSE IF ~IsExc(t2) THEN t2
        ELSE IF ~IsExc(t3) THEN t3
        ELSE IF ~IsExc(t4) /\ ~IsExc(translate(t4, "ko")) THEN translate(t4, "ko")
        ELSE IF IsExc(t5) THEN t5
        ELSE translate(t5, "ko")

select_main(tl) ==
    LET t1 == find_transcript(tl, <<"ko", "en">>)
        t2 == find_generated_transcript(tl, <<"ko", "en">>)
        t3 == find_manually_created_transcript(tl, <<"en">>)
    IN  IF ~IsExc(t1) THEN t1
        ELSE IF ~IsExc(t2) THEN t2
        ELSE IF IsExc(t3) THEN t3
        ELSE translate(t3, "ko")

select_supervisor(tl) ==
    LET t1 == find_transcript(tl, <<"ko", "en">>)
        t2 == find_generated_transcript(tl, <<"ko", "en">>)
        t3 == find_generated_transcript(tl, <<"en">>)
    IN  IF ~IsExc(t1) THEN t1
        ELSE IF ~IsExc(t2) THEN t2
        ELSE IF ~IsExc(t3) /\ ~IsExc(translate(t3, "ko")) THEN translate(t3, "ko")
        ELSE IF Iter(tl) # <<>> THEN translate(Head(Iter(tl)), "ko")
        ELSE IF ~IsExc(t3) THEN t3
        ELSE Nothing

select_transcript(v, tl) ==
    CASE v = "app" -> select_app(tl)
      [] v = "main" -> select_main(tl)
      [] OTHER -> select_supervisor(tl)

\* the call that lists the tracks. backend.py calls the instance method
\* list on the class, YouTubeTranscriptApi.list(video_id): video_id is bound
\* to self and the call raises TypeError before any request is made.
list_call(v, list_resp) ==
    IF v = "backend" THEN Exc("TypeError") ELSE list_resp

\* TextFormatter.format_transcript
format_transcript(segments) == join(<<"\n">>, segments)

MsgNoCaptions == ERROR \o <<": this video has no captions.">>
MsgNoMatch == ERROR \o <<": no suitable caption track was found.">>
MsgExtractFailed(e) == ERROR \o <<": caption extraction failed (">> \o <<e.exc>> \o <<")">>

\* the two except clauses that close get_video_script
handle(e) ==
    IF e.exc \in {"TranscriptsDisabled", "NoTranscriptFound"}
    THEN MsgNoCaptions
    ELSE MsgExtractFailed(e)

\* requests that the call listing the tracks sends to the store
list_requests(v) == IF v = "backend" THEN 0 ELSE 1

\* get_video_script from the fetch of the selected transcript t on
fetch_selected(v, tl, t, fetch_resp) ==
    IF t = Nothing
    THEN [script |-> MsgNoMatch, transcript |-> Nothing,
          list |-> tl, fetch |-> Nothing, store_calls |-> list_requests(v)]
    ELSE IF IsExc(t)
    THEN [script |-> handle(t), transcript |-> Nothing,
          list |-> tl, fetch |-> Nothing, store_calls |-> list_requests(v)]
    ELSE IF IsExc(fetch_resp)
    THEN [script |-> handle(fetch_resp), transcript |-> t,
          list |-> tl, fetch |-> fetch_resp, store_calls |-> list_requests(v) + 1]
    ELSE [script |-> replace(format_transcript(fetch_resp.segments), "\n", " "),
          transcript |-> t,
          list |-> tl, fetch |-> fetch_resp, store_calls |-> list_requests(v) + 1]

\* get_video_script from the answer tl of the list call on
select_and_fetch(v, tl, fetch_resp) ==
    IF IsExc(tl)
    THEN [script |-> handle(tl), transcript |-> Nothing,
          list |-> tl, fetch |-> Nothing, store_calls |-> list_requests(v)]
    ELSE fetch_selected(v, tl, select_transcript(v, tl), fetch_resp)

\* get_video_script, given the answers of the store to list and to fetch:
\* the returned string, the transcript that was fetched (Nothing if none
\* was), the answers that were used, and the number of requests to the store
get_video_script(v, list_resp, fetch_resp) ==
    select_and_fetch(v, list_call(v, list_resp), fetch_resp)

\* ------------------------------------------------------------------------
\* Specification SpecScript: get_video_script applied to each answer of the
\* caption store, in each variant
\* ------------------------------------------------------------------------
InitScript ==
    /\ variant \in Variants
    /\ GOOGLE_API_KEY = None
    /\ st = <<>>
    /\ pc = <<>>
    /\ obs = <<>>
    /\ calls = <<>>
    /\ arg = UrlId
    /\ ret = NotCalled

CallGetVideoScript ==
    /\ ret = NotCalled
    /\ \E list_resp \in ListResponses, fetch_resp \in FetchResponses :
           ret' = <<get_video_script(variant, list_resp, fetch_resp)>>
    /\ UNCHANGED <<variant, GOOGLE_API_KEY, st, pc, obs, calls, arg>>

NextScript == CallGetVideoScript

SpecScript == InitScript /\ [][NextScript]_vars

Avail(kind, lang) == ~IsExc(Result.list) /\ lang \in Result.list[kind]

\* C4: when the only available track is an auto-generated English one,
\* get_video_script returns that track translated to Korean, never the raw
\* English track.
C4_AutoEnglishTranslated ==
    (/\ Called
     /\ ~IsExc(Result.list)
     /\ Result.list.manual = {}
     /\ Result.list.generated = {"en"}
     /\ Result.list.translatable
     /\ Result.fetch # Nothing
     /\ ~IsExc(Result.fetch))
    => /\ Result.transcript # Nothing
       /\ Result.transcript.source = <<"generated", "en">>
       /\ Result.transcript.tlang = "ko"

\* the selection the priority rule a-e prescribes, as <<source, tlang>>
Priority ==
    << <<<<"manual", "ko">>, "">>,
       <<<<"manual", "en">>, "">>,
       <<<<"generated", "ko">>, "">>,
       <<<<"manual", "en">>, "ko">>,
       <<<<"generated", "en">>, "ko">> >>

RuleApplies(i) ==
    /\ Avail(Priority[i][1][1], Priority[i][1][2])
    /\ Priority[i][2] = "ko" => Result.list.translatable

\* C5: get_video_script selects the first available of manual Korean,
\* manual English, auto-generated Korean, manual English translated to
\* Korean, auto-generated English translated to Korean.
C5_PriorityOrder ==
    \A i \in 1..Len(Priority) :
        (/\ Called
         /\ ~IsExc(Result.list)
         /\ Result.fetch # Nothing
         /\ ~IsExc(Result.fetch)
         /\ RuleApplies(i)
         /\ \A j \in 1..(i - 1) : ~RuleApplies(j))
        => /\ Result.transcript # Nothing
           /\ Result.transcript.source = Priority[i][1]
           /\ Result.transcript.tlang = Priority[i][2]

\* ------------------------------------------------------------------------
\* The pipeline: AgentState, script_loader_node, text_analysis_node
\* ------------------------------------------------------------------------
\* the state of a run after invoke({"youtube_url": url})
AgentState(url) ==
    [youtube_url |-> url, video_id |-> None, script_text |-> None,
     analysis_result |-> None, error |-> None]

\* the graph merges the dict a node returns into the state of the run
Merge(state, update) ==
    [k \in DOMAIN state |-> IF k \in DOMAIN update THEN update[k] ELSE state[k]]

\* truth value of an Optional[str]
Truthy(s) == s # None /\ s # <<>>

MsgInvalidUrl == <<"This is not a valid YouTube URL.">>
MsgCannotAnalyze == <<"Cannot analyze: ">>
MsgNoApiKey == <<"Google API Key is not set.">>
MsgAiError == <<"Error during AI analysis: ">>

\* script_loader_node writing the notice of a failure itself
check_script_notice(video_id, gvs) ==
    IF startswith(gvs.script, ERROR)
    THEN [update |-> [error |-> gvs.script, script_text |-> None,
                      analysis_result |-> MsgCannotAnalyze \o gvs.script],
          list |-> gvs.list, fetch |-> gvs.fetch, transcript |-> gvs.transcript,
          store_calls |-> gvs.store_calls]
    ELSE [update |-> [video_id |-> video_id, script_text |-> gvs.script],
          list |-> gvs.list, fetch |-> gvs.fetch, transcript |-> gvs.transcript,
          store_calls |-> gvs.store_calls]

\* script_loader_node from the answer gvs of get_video_script on: the dict
\* it returns, and what get_video_script did
check_script(video_id, gvs) ==
    IF startswith(gvs.script, ERROR)
    THEN [update |-> [error |-> gvs.script, script_text |-> None],
          list |-> gvs.list, fetch |-> gvs.fetch, transcript |-> gvs.transcript,
          store_calls |-> gvs.store_calls]
    ELSE [update |-> [video_id |-> video_id, script_text |-> gvs.script],
          list |-> gvs.list, fetch |-> gvs.fetch, transcript |-> gvs.transcript,
          store_calls |-> gvs.store_calls]

\* script_loader_node from the call of get_video_script on
load_script(v, video_id, list_resp, fetch_resp) ==
    check_script(video_id, get_video_script(v, list_resp, fetch_resp))

\* script_loader_node without its check of the extracted video_id
script_loader_node_unchecked(v, state, list_resp, fetch_resp) ==
    load_script(v, extract_video_id(state.youtube_url), list_resp, fetch_resp)

\* script_loader_node from the extraction of video_id on
load_video(v, video_id, list_resp, fetch_resp) ==
    IF ~Truthy(video_id)
    THEN [update |-> [error |-> MsgInvalidUrl],
          list |-> Nothing, fetch |-> Nothing, transcript |-> Nothing,
          store_calls |-> 0]
    ELSE load_script(v, video_id, list_resp, fetch_resp)

script_loader_node(v, state, list_resp, fetch_resp) ==
    load_video(v, extract_video_id(state.youtube_url), list_resp, fetch_resp)

\* the length of the prefix of the script that the prompt embeds
Cap(v) == IF v = "app" THEN 10000 ELSE 5000

PromptHead == <<"(instructions) [script to analyse] ">>
PromptTail == <<" ... (rest omitted) (items to analyse, answer format)">>

\* the prompt with the whole script embedded
prompt_text_uncapped(v, script) == PromptHead \o script \o PromptTail

prompt_text(v, script) == PromptHead \o Slice(script, Cap(v)) \o PromptTail

ApiKey == <<"k", "e", "y">>

Replies ==
    {<<"1. verdict: safe content">>,
     <<"1. verdict: high-risk spam and suspected fraud">>}

\* what the LLM client can do, given the credential of the process: without
\* a credential either the constructor raises, or the request is sent and
\* rejected; with one the request is answered or fails
LlmResponses(api_key) ==
    IF ~Truthy(api_key)
    THEN {[exc |-> "DefaultCredentialsError", at |-> "init"],
          [exc |-> "PermissionDenied", at |-> "invoke"]}
    ELSE {[content |-> c] : c \in Replies}
         \cup {[exc |-> "ResourceExhausted", at |-> "invoke"]}

\* text_analysis_node past its check of state.error: whether it raises,
\* the dict it returns otherwise, the credential it found, the prompt it
\* built, the answer of the LLM client and the number of requests sent to it
analyze(v, state, api_key, llm_resp) ==
    LET script == state.script_text
        sent == IF IsExc(llm_resp) /\ llm_resp.at = "init" THEN 0 ELSE 1
    IN  IF v = "app" /\ ~Truthy(api_key)
        THEN [raised |-> FALSE,
              update |-> [error |-> MsgNoApiKey],
              key |-> <<api_key>>, prompt |-> None, llm |-> Nothing, llm_calls |-> 0]
        ELSE IF ~IsExc(llm_resp)
        THEN [raised |-> FALSE,
              update |-> [analysis_result |-> llm_resp.content],
              key |-> <<api_key>>, prompt |-> prompt_text(v, script),
              llm |-> llm_resp, llm_calls |-> sent]
        ELSE IF v = "app"
        THEN [raised |-> FALSE,
              update |-> [error |-> MsgAiError \o <<llm_resp.exc>>],
              key |-> <<api_key>>,
              prompt |-> IF sent = 1 THEN prompt_text(v, script) ELSE None,
              llm |-> llm_resp, llm_calls |-> sent]
        ELSE [raised |-> TRUE,
              update |-> <<>>,
              key |-> <<api_key>>,
              prompt |-> IF sent = 1 THEN prompt_text(v, script) ELSE None,
              llm |-> llm_resp, llm_calls |-> sent]

\* text_analysis_node without its check of state.error
text_analysis_node_unchecked(v, state, api_key, llm_resp) ==
    analyze(v, state, api_key, llm_resp)

\* text_analysis_node with the check of state.error in app.py only
text_analysis_node_app_only(v, state, api_key, llm_resp) ==
    IF v = "app" /\ Truthy(state.error)
    THEN [raised |-> FALSE,
          update |-> [analysis_result |-> MsgCannotAnalyze \o state.error],
          key |-> <<>>, prompt |-> None, llm |-> Nothing, llm_calls |-> 0]
    ELSE analyze(v, state, api_key, llm_resp)

text_analysis_node(v, state, api_key, llm_resp) ==
    IF Truthy(state.error)
    THEN [raised |-> FALSE,
          update |-> [analysis_result |-> MsgCannotAnalyze \o state.error],
          key |-> <<>>, prompt |-> None, llm |-> Nothing, llm_calls |-> 0]
    ELSE analyze(v, state, api_key, llm_resp)

\* the keys of the state that script_loader_node reads
script_loader_reads(state) == {"youtube_url"}

\* the keys of the state that text_analysis_node reads
text_analysis_reads(state) ==
    IF Truthy(state.error) THEN {"error"} ELSE {"error", "script_text"}

\* what a run has observed of its collaborators, the nodes it has entered
\* with the keys of the state each has written and read, and how often it
\* called the collaborators
NoObs ==
    [list |-> Nothing, fetch |-> Nothing, transcript |-> Nothing,
     resolver_error |-> None, key |-> <<>>, prompt |-> None, llm |-> Nothing,
     stages |-> <<>>,
     wrote |-> [loader |-> {}, analyst |-> {}],
     read |-> [loader |-> {}, analyst |-> {}]]

NoCalls == [store |-> 0, llm |-> 0]

\* URLs of the runs, and the answers of the caption store to them: videos
\* with at most MaxRunTracks tracks of at most MaxRunSegs segments
RunUrls == {UrlWatch \o UrlId, UrlShort \o UrlId, UrlPlain}

RunListResponses ==
    {x \in ListResponses :
        ~IsExc(x) => Cardinality(x.manual) + Cardinality(x.generated) <= MaxRunTracks}

RunFetchResponses ==
    {x \in FetchResponses : ~IsExc(x) => Len(x.segments) <= MaxRunSegs}

InitRuns(n, urls) ==
    /\ variant \in Variants
    /\ GOOGLE_API_KEY \in {None, ApiKey}
    /\ st \in [1..n -> {AgentState(url) : url \in urls}]
    /\ pc = [r \in 1..n |-> "loader"]
    /\ obs = [r \in 1..n |-> NoObs]
    /\ calls = [r \in 1..n |-> NoCalls]
    /\ arg = <<>>
    /\ ret = NotCalled

\* node "loader" with one state dict shared by all runs
LoaderStep_shared(r, list_resps, fetch_resps) ==
    /\ pc[r] = "loader"
    /\ \E list_resp \in list_resps, fetch_resp \in fetch_resps :
        \E out \in {script_loader_node(variant, st[r], list_resp, fetch_resp)} :
            /\ st' = [q \in DOMAIN st |-> Merge(st[q], out.update)]
            /\ obs' = [obs EXCEPT ![r].list = out.list,
                                  ![r].fetch = out.fetch,
                                  ![r].transcript = out.transcript,
                                  ![r].resolver_error = Merge(st[r], out.update).error,
                                  ![r].stages = Append(@, "loader"),
                                  ![r].wrote.loader = DOMAIN out.update,
                                  ![r].read.loader = script_loader_reads(st[r])]
            /\ calls' = [calls EXCEPT ![r].store = @ + out.store_calls]
    /\ pc' = [pc EXCEPT ![r] = "analyst"]
    /\ UNCHANGED <<variant, GOOGLE_API_KEY, arg, ret>>

\* node "loader" with a conditional edge: a failed Resolver ends the run
LoaderStep_conditional(r, list_resps, fetch_resps) ==
    /\ pc[r] = "loader"
    /\ \E list_resp \in list_resps, fetch_resp \in fetch_resps :
        \E out \in {script_loader_node(variant, st[r], list_resp, fetch_resp)} :
            /\ st' = [st EXCEPT ![r] = Merge(st[r], out.update)]
            /\ obs' = [obs EXCEPT ![r].list = out.list,
                                  ![r].fetch = out.fetch,
                                  ![r].transcript = out.transcript,
                                  ![r].resolver_error = Merge(st[r], out.update).error,
                                  ![r].stages = Append(@, "loader"),
                                  ![r].wrote.loader = DOMAIN out.update,
                                  ![r].read.loader = script_loader_reads(st[r])]
            /\ calls' = [calls EXCEPT ![r].store = @ + out.store_calls]
            /\ pc' = [pc EXCEPT ![r] = IF Truthy(Merge(st[r], out.update).error)
                                       THEN "END" ELSE "analyst"]
    /\ UNCHANGED <<variant, GOOGLE_API_KEY, arg, ret>>

\* node "loader" of run r
LoaderStep(r, list_resps, fetch_resps) ==
    /\ pc[r] = "loader"
    /\ \E list_resp \in list_resps, fetch_resp \in fetch_resps :
        \E out \in {script_loader_node(variant, st[r], list_resp, fetch_resp)} :
            /\ st' = [st EXCEPT ![r] = Merge(st[r], out.update)]
            /\ obs' = [obs EXCEPT ![r].list = out.list,
                                  ![r].fetch = out.fetch,
                                  ![r].transcript = out.transcript,
                                  ![r].resolver_error = Merge(st[r], out.update).error,
                                  ![r].stages = Append(@, "loader"),
                                  ![r].wrote.loader = DOMAIN out.update,
                                  ![r].read.loader = script_loader_reads(st[r])]
            /\ calls' = [calls EXCEPT ![r].store = @ + out.store_calls]
    /\ pc' = [pc EXCEPT ![r] = "analyst"]
    /\ UNCHANGED <<variant, GOOGLE_API_KEY, arg, ret>>

\* node "analyst" of run r; an exception that leaves the node leaves invoke
AnalystStep(r, replies) ==
    /\ pc[r] = "analyst"
    /\ \E llm_resp \in {x \in LlmResponses(GOOGLE_API_KEY) :
                           ~IsExc(x) => x.content \in replies} :
        \E out \in {text_analysis_node(variant, st[r], GOOGLE_API_KEY, llm_resp)} :
            /\ st' = [st EXCEPT ![r] = Merge(st[r], out.update)]
            /\ pc' = [pc EXCEPT ![r] = IF out.raised THEN "raised" ELSE "END"]
            /\ obs' = [obs EXCEPT ![r].key = out.key,
                                  ![r].prompt = out.prompt,
                                  ![r].llm = out.llm,
                                  ![r].stages = Append(@, "analyst"),
                                  ![r].wrote.analyst = DOMAIN out.update,
                                  ![r].read.analyst = text_analysis_reads(st[r])]
            /\ calls' = [calls EXCEPT ![r].llm = @ + out.llm_calls]
    /\ UNCHANGED <<variant, GOOGLE_API_KEY, arg, ret>>

\* app.py, sidebar of main(): a key typed by a user is put into os.environ
SidebarSetKey ==
    /\ variant = "app"
    /\ ~Truthy(GOOGLE_API_KEY)
    /\ GOOGLE_API_KEY' = ApiKey
    /\ UNCHANGED <<variant, st, pc, obs, calls, arg, ret>>

\* ------------------------------------------------------------------------
\* Specification Spec: one run of the pipeline
\* ------------------------------------------------------------------------
Init == InitRuns(1, RunUrls)

Loader == \E r \in DOMAIN st : LoaderStep(r, RunListResponses, RunFetchResponses)

Analyst == \E r \in DOMAIN st : AnalystStep(r, Replies)

Next == Loader \/ Analyst \/ SidebarSetKey

Spec == Init /\ [][Next]_vars

Ended(r) == pc[r] \in {"END", "raised"}

ResolverFailed(r) == pc[r] # "loader" /\ Truthy(obs[r].resolver_error)

ResolverSucceeded(r) == pc[r] # "loader" /\ ~Truthy(obs[r].resolver_error)

\* C1: when the Resolver ended with error set, the Analyst sends no request
\* to the LLM and the final analysis_result is the "cannot analyze" notice
\* that contains the Resolver's error message.
C1_FailedResolverNoLlm ==
    \A r \in DOMAIN st :
        ResolverFailed(r) =>
            /\ calls[r].llm = 0
            /\ pc[r] # "raised"
            /\ pc[r] = "END" =>
                  /\ st[r].analysis_result = MsgCannotAnalyze \o obs[r].resolver_error
                  /\ st[r].error = obs[r].resolver_error

C1_Witness ==
    \E r \in DOMAIN st :
        /\ pc[r] = "END"
        /\ ResolverFailed(r)
        /\ IsExc(obs[r].list)
        /\ st[r].analysis_result = MsgCannotAnalyze \o obs[r].resolver_error

\* C2: in every variant, when the Resolver succeeded and the LLM credential
\* is absent, the run ends with a missing-credential error in the state and
\* no request to the LLM is attempted.
C2_MissingCredential ==
    \A r \in DOMAIN st :
        (Ended(r) /\ ResolverSucceeded(r) /\ obs[r].key = <<None>>) =>
            /\ pc[r] = "END"
            /\ Truthy(st[r].error)
            /\ calls[r].llm = 0

\* C3: in every variant a failure of the caption store or of the LLM call
\* ends as an error value in the final state; no run ends with an exception
\* thrown out of the pipeline (stated for runs that found a credential:
\* the runs without one are the subject of C2).
C3_FailuresCaptured ==
    \A r \in DOMAIN st :
        /\ obs[r].key # <<None>> => pc[r] # "raised"
        /\ (pc[r] = "END" /\ (IsExc(obs[r].list) \/ IsExc(obs[r].fetch) \/ IsExc(obs[r].llm)))
              => Truthy(st[r].error)

\* C7: when no video ID can be extracted from the URL, the run ends with
\* the invalid-URL error, no video_id and no script_text, and neither the
\* caption store nor the LLM is called at any point of the run.
C7_InvalidUrl ==
    \A r \in DOMAIN st :
        extract_video_id(st[r].youtube_url) = None =>
            /\ calls[r].store = 0
            /\ calls[r].llm = 0
            /\ st[r].video_id = None
            /\ st[r].script_text = None
            /\ pc[r] # "raised"
            /\ pc[r] # "loader" => st[r].error = MsgInvalidUrl
            /\ pc[r] = "END" => st[r].analysis_result = MsgCannotAnalyze \o MsgInvalidUrl

C7_Witness ==
    \E r \in DOMAIN st :
        /\ pc[r] = "END"
        /\ extract_video_id(st[r].youtube_url) = None
        /\ st[r].error = MsgInvalidUrl
        /\ calls[r] = NoCalls

\* C8: whenever a track is selected and fetched without error, the Resolver
\* stores the segment texts, joined and with newlines replaced by spaces,
\* in script_text as one newline-free string, sets video_id and leaves
\* error unset, whatever the caption text is.
C8_ScriptVerbatim ==
    \A r \in DOMAIN st :
        (pc[r] # "loader" /\ obs[r].fetch # Nothing /\ ~IsExc(obs[r].fetch)) =>
            /\ st[r].script_text =
                  replace(join(<<"\n">>, obs[r].fetch.segments), "\n", " ")
            /\ \A i \in 1..Len(st[r].script_text) : st[r].script_text[i] # "\n"
            /\ st[r].video_id = extract_video_id(st[r].youtube_url)
            /\ obs[r].resolver_error = None

\* a video has tracks, but none that a priority rule selects
NoRuleMatches(tl) ==
    /\ tl.manual \cup tl.generated # {}
    /\ (tl.manual \cup tl.generated) \cap {"ko", "en"} = {}
    /\ ~tl.translatable

\* C9: the Resolver reports captions disabled, an unexpected error (with
\* the text of its cause) and no track matching a rule as three different
\* reasons; a video with tracks of which none matches is never reported
\* with the reason of a video with captions disabled. In each case error
\* is set and script_text is not.
C9_FailureReasons ==
    \A r \in DOMAIN st :
        (pc[r] # "loader" /\ obs[r].list # Nothing) =>
            LET l == obs[r].list
                e == obs[r].resolver_error
                disabled == handle(Exc("TranscriptsDisabled"))
            IN  /\ (IsExc(l) \/ NoRuleMatches(l)) =>
                      Truthy(e) /\ st[r].script_text = None
                /\ (IsExc(l) /\ l.exc = "TranscriptsDisabled") => e = disabled
                /\ (IsExc(l) /\ l.exc # "TranscriptsDisabled") =>
                      e = MsgExtractFailed(l)
                /\ (~IsExc(l) /\ NoRuleMatches(l)) => e # disabled

\* ------------------------------------------------------------------------
\* Specification SpecConc: NumRequests runs interleaved in one process
\* ------------------------------------------------------------------------
ConcUrls == {UrlWatch \o UrlId, UrlPlain}

ConcListResponses ==
    {Exc("TranscriptsDisabled"),
     [manual |-> {"ko"}, generated |-> {}, translatable |-> FALSE]}

ConcFetchResponses == {[segments |-> << <<"a">> >>]}

ConcReplies == {<<"1. verdict: safe content">>}

InitConc == InitRuns(NumRequests, ConcUrls)

LoaderConc ==
    \E r \in DOMAIN st : LoaderStep(r, ConcListResponses, ConcFetchResponses)

AnalystConc == \E r \in DOMAIN st : AnalystStep(r, ConcReplies)

NextConc == LoaderConc \/ AnalystConc \/ SidebarSetKey

SpecConc == InitConc /\ [][NextConc]_vars

\* the state in which a run ends, computed from its URL and from what the
\* collaborators answered to its own calls
Analysed(v, s1, o) ==
    Merge(s1, text_analysis_node(v, s1, IF o.key = <<>> THEN None ELSE o.key[1],
                                 o.llm).update)

FinalState(v, url, o) ==
    Analysed(v, Merge(AgentState(url),
                      script_loader_node(v, AgentState(url), o.list, o.fetch).update), o)

Stepped(r) == pc'[r] # pc[r]

\* C10: with runs interleaved, a step of one run changes nothing of another
\* run and no process-wide state, and the final state of each run is
\* determined by its own URL and the answers to its own calls (the
\* credential the LLM client found among them).
C10_RunsIsolated ==
    [][\A r \in DOMAIN st :
          Stepped(r) =>
              /\ \A q \in DOMAIN st \ {r} :
                     /\ st'[q] = st[q]
                     /\ pc'[q] = pc[q]
                     /\ obs'[q] = obs[q]
                     /\ calls'[q] = calls[q]
              /\ GOOGLE_API_KEY' = GOOGLE_API_KEY
              /\ variant' = variant
              /\ pc'[r] = "END" =>
                     st'[r] = FinalState(variant, st[r].youtube_url, obs'[r])]_vars

C10_Witness ==
    \E r, q \in DOMAIN st :
        /\ r # q
        /\ pc[r] = "END"
        /\ pc[q] = "analyst"
        /\ Truthy(st[r].analysis_result)
        /\ ~Truthy(st[r].error)
        /\ Truthy(st[q].error)

\* ------------------------------------------------------------------------
\* Specification SpecPrompt: one run on videos whose caption text is about
\* as long as the prefix of the script that the prompt embeds
\* ------------------------------------------------------------------------
\* how far the length of a caption text lies from 5000 or 10000 characters
MaxOver == 1

\* a caption text of n characters in which neighbours differ
LongText(n) == [i \in 1..n |-> <<"a", "b", "c">>[(i % 3) + 1]]

PromptLens == {c + d : c \in {5000, 10000}, d \in (0 - MaxOver)..MaxOver}

PromptUrls == {UrlShort \o UrlId}

PromptListResponses ==
    {[manual |-> {"ko"}, generated |-> {}, translatable |-> FALSE],
     [manual |-> {}, generated |-> {"en"}, translatable |-> TRUE]}

PromptFetchResponses ==
    {[segments |-> << LongText(n) >>] : n \in PromptLens}
    \cup {[segments |-> << <<"a">>, <<"b">> >>], [segments |-> <<>>]}

InitPrompt == InitRuns(1, PromptUrls)

LoaderPrompt ==
    \E r \in DOMAIN st : LoaderStep(r, PromptListResponses, PromptFetchResponses)

AnalystPrompt == \E r \in DOMAIN st : AnalystStep(r, ConcReplies)

NextPrompt == LoaderPrompt \/ AnalystPrompt \/ SidebarSetKey

SpecPrompt == InitPrompt /\ [][NextPrompt]_vars

\* the truncation cap of the variant, as the claim gives it
ClaimCap == IF variant = "app" THEN 10000 ELSE 5000

\* C11: the prompt sent to the LLM embeds, between its fixed head and tail,
\* the first cap characters of a script longer than the cap (10000 in
\* app.py, 5000 elsewhere) and nothing beyond them, and the whole script
\* when it is no longer than the cap.
C11_PromptCapped ==
    \A r \in DOMAIN st :
        obs[r].prompt # None =>
            LET script == st[r].script_text
                prompt == obs[r].prompt
                n == IF Len(script) > ClaimCap THEN ClaimCap ELSE Len(script)
            IN  /\ script # None
                /\ Len(prompt) = n + 2
                /\ prompt[1] = PromptHead[1]
                /\ prompt[n + 2] = PromptTail[1]
                /\ \A i \in 1..n : prompt[i + 1] = script[i]

C11_Witness ==
    \E r \in DOMAIN st :
        /\ pc[r] = "END"
        /\ calls[r].llm = 1
        /\ obs[r].prompt # None
        /\ Len(st[r].script_text) > ClaimCap
        /\ Len(obs[r].prompt) = ClaimCap + 2
        /\ Truthy(st[r].analysis_result)

\* ------------------------------------------------------------------------
\* Specification SpecLive: NumRequests runs interleaved, in each of which
\* invoke runs every node whose turn it is
\* ------------------------------------------------------------------------
SpecLive ==
    /\ InitConc
    /\ [][NextConc]_vars
    /\ \A r \in 1..NumRequests :
           /\ WF_vars(LoaderStep(r, ConcListResponses, ConcFetchResponses))
           /\ WF_vars(AnalystStep(r, ConcReplies))

\* the nodes a run has entered agree with its position in the graph
StagesInOrder(r) ==
    /\ pc[r] = "loader" => obs[r].stages = <<>>
    /\ pc[r] = "analyst" => obs[r].stages = <<"loader">>
    /\ Ended(r) => obs[r].stages = <<"loader", "analyst">>

\* C12: in every run the Resolver runs once, then the Analyst runs once
\* (also after a failed Resolver), then the run is over, either at END or
\* with the exception that left the Analyst; no node is entered a second
\* time, and every run is eventually over.
C12_StageOrder ==
    /\ [](\A r \in DOMAIN st : StagesInOrder(r))
    /\ <>[](\A r \in DOMAIN st :
               Ended(r) /\ obs[r].stages = <<"loader", "analyst">>)

C12_Witness ==
    \E r \in DOMAIN st :
        /\ pc[r] = "END"
        /\ ResolverFailed(r)
        /\ obs[r].stages = <<"loader", "analyst">>
        /\ st[r].analysis_result = MsgCannotAnalyze \o st[r].error

\* C13: in every state of a run in which error is set, analysis_result is
\* unset or is the "cannot analyze" notice that wraps that error; it is
\* never a classification returned by the LLM.
C13_ErrorExcludesVerdict ==
    \A r \in DOMAIN st :
        Truthy(st[r].error) =>
            /\ \/ st[r].analysis_result = None
               \/ st[r].analysis_result = MsgCannotAnalyze \o st[r].error
            /\ st[r].analysis_result \notin Replies
            /\ (obs[r].llm # Nothing /\ ~IsExc(obs[r].llm)) =>
                   st[r].analysis_result # obs[r].llm.content

C13_Witness ==
    \E r \in DOMAIN st :
        /\ pc[r] = "END"
        /\ IsExc(obs[r].fetch)
        /\ Truthy(st[r].error)
        /\ st[r].analysis_result = MsgCannotAnalyze \o st[r].error
        /\ obs[r].llm = Nothing

\* the fields of the state that the Resolver produces
ResolverFields == {"video_id", "script_text", "error"}

\* a step of the given node in run r
StepOf(r, node) == pc[r] = node /\ pc'[r] # node

\* C14: each of video_id, script_text, analysis_result and error
\* is written by one stage only (the Resolver writes error, so the Analyst
\* writes analysis_result and nothing else), and a stage reads only the
\* input and fields of a stage that has run.
C14_SingleWriter ==
    \A r \in DOMAIN st :
        /\ obs[r].wrote.loader \subseteq ResolverFields
        /\ obs[r].wrote.analyst \subseteq {"analysis_result"}
        /\ obs[r].read.loader \subseteq {"youtube_url"}
        /\ obs[r].read.analyst \subseteq {"youtube_url"} \cup ResolverFields

WritersDisjoint(r) ==
    /\ obs[r].wrote.loader \subseteq ResolverFields
    /\ obs[r].wrote.analyst \subseteq {"analysis_result", "error"}
    /\ obs[r].wrote.loader \cap obs[r].wrote.analyst = {}
    /\ "error" \in obs[r].wrote.analyst =>
           variant = "app" /\ ~Truthy(obs[r].resolver_error)
    /\ obs[r].read.loader \subseteq {"youtube_url"}
    /\ obs[r].read.analyst \subseteq {"youtube_url"} \cup ResolverFields

OtherStageKeeps(r) ==
    /\ StepOf(r, "loader") => st'[r].analysis_result = st[r].analysis_result
    /\ StepOf(r, "analyst") =>
           /\ st'[r].video_id = st[r].video_id
           /\ st'[r].script_text = st[r].script_text
           /\ Truthy(st[r].error) => st'[r].error = st[r].error

\* C14, with the two writers of error: video_id and script_text are written
\* by the Resolver only and analysis_result by the Analyst only, the other
\* stage leaving
\* them unchanged; error is written by the Resolver, or by the Analyst of
\* app.py when the Resolver left it unset, never by both stages in a run
\* and never changed once set; a stage reads only the input and fields of
\* a stage that has run.
C14_WritersPerRun ==
    /\ [](\A r \in DOMAIN st : WritersDisjoint(r))
    /\ [][\A r \in DOMAIN st : OtherStageKeeps(r)]_vars

C14_Witness ==
    \E r \in DOMAIN st :
        /\ pc[r] = "END"
        /\ obs[r].wrote.loader = {"video_id", "script_text"}
        /\ obs[r].wrote.analyst = {"error"}
        /\ obs[r].read.analyst = {"error", "script_text"}
        /\ Truthy(st[r].error)
        /\ Truthy(st[r].script_text)

====
